---- MODULE Spec2Model ----
(***************************************************************************)
(* Sentinel: a periodic job runner.  A registry of jobs is persisted in a  *)
(* key/value store; a tick-driven scheduler resolves each job's spec,      *)
(* checks due-ness, takes a concurrency permit and dispatches the action;  *)
(* the execution writes the job's run state back on completion.            *)
(*                                                                         *)
(* u64 quantities are modelled WordBits wide (TLC integers are 32-bit);    *)
(* every saturating operation clamps at U64_MAX = 2^WordBits - 1.          *)
(***************************************************************************)
EXTENDS Bags, FiniteSets, Integers, Sequences, TLC

----------------------------------------------------------------------------
(* Bounds of the model *)

WordBits == 20

MaxConcurrency == 2

MaxCount == 2

U64_MAX == 2^WordBits - 1

HugeMs == 2^(WordBits - 1)

----------------------------------------------------------------------------
(* Program constants *)

max_backoff_ms == 60000

demo_period_ms == 3000

----------------------------------------------------------------------------
(* u64 arithmetic *)

Max(a, b) == IF a >= b THEN a ELSE b

Min(a, b) == IF a <= b THEN a ELSE b

saturating_add(a, b) == IF a + b > U64_MAX THEN U64_MAX ELSE a + b

saturating_sub(a, b) == IF a < b THEN 0 ELSE a - b

saturating_mul(a, b) == IF a * b > U64_MAX THEN U64_MAX ELSE a * b

----------------------------------------------------------------------------
(* Job model (core/src/job.rs).  Option<T> is <<>> or <<v>>. *)

None == <<>>

Some(v) == <<v>>

Noop == [type |-> "noop"]

Exec(cmd, args, timeout_ms) ==
    [type |-> "exec", cmd |-> cmd, args |-> args, timeout_ms |-> timeout_ms]

Http(url) ==
    [type |-> "http", url |-> url, method |-> None, body |-> None,
     timeout_ms |-> None]

KvDel(key) == [type |-> "kv_del", key |-> key]

KvPut(key, decode, value) ==
    [type |-> "kv_put", key |-> key, decode |-> decode, value |-> value]

JobSpec(period_ms, action) == [period_ms |-> period_ms, action |-> action]

LegacySpec(cmd, period_ms) == [cmd |-> cmd, period_ms |-> period_ms]

JobState(last_run_ms, runs, failures, backoff_ms) ==
    [last_run_ms |-> last_run_ms, runs |-> runs, failures |-> failures,
     backoff_ms |-> backoff_ms]

JobState_default == JobState(0, 0, 0, 0)

----------------------------------------------------------------------------
(* bincode wire format.  A stored value is a sequence of fields: a u64 is  *)
(* 8 bytes, a u8 one byte, a run of string bytes Len(s) bytes.  A string   *)
(* is its u64 length followed by its bytes, a struct the concatenation of  *)
(* its fields, an Option a u8 tag followed by the value, a Vec its u64     *)
(* length followed by its elements.                                        *)

U64(n) == [k |-> "u64", n |-> n, s |-> ""]

U8(n) == [k |-> "u8", n |-> n, s |-> ""]

Bytes(s) == [k |-> "str", n |-> Len(s), s |-> s]

FieldLen(t) == IF t.k = "u64" THEN 8 ELSE IF t.k = "u8" THEN 1 ELSE t.n

RECURSIVE ByteLen(_)
ByteLen(b) == IF b = <<>> THEN 0 ELSE FieldLen(Head(b)) + ByteLen(Tail(b))

ser_String(s) == IF s = "" THEN <<U64(0)>> ELSE <<U64(Len(s)), Bytes(s)>>

ser_OptionU64(o) == IF o = None THEN <<U8(0)>> ELSE <<U8(1), U64(o[1])>>

ser_OptionString(o) == IF o = None THEN <<U8(0)>> ELSE <<U8(1)>> \o ser_String(o[1])

RECURSIVE ser_Strings(_)
ser_Strings(v) == IF v = <<>> THEN <<>> ELSE ser_String(Head(v)) \o ser_Strings(Tail(v))

ser_VecString(v) == <<U64(Len(v))>> \o ser_Strings(v)

\* #[serde(tag = "type", rename_all = "snake_case")]: the tag is written as
\* the first field of the variant's struct.
ser_Action(a) ==
    CASE a.type = "noop" -> ser_String("noop")
      [] a.type = "exec" -> ser_String("exec") \o ser_String(a.cmd)
                            \o ser_VecString(a.args) \o ser_OptionU64(a.timeout_ms)
      [] a.type = "http" -> ser_String("http") \o ser_String(a.url)
                            \o ser_OptionString(a.method) \o ser_OptionString(a.body)
                            \o ser_OptionU64(a.timeout_ms)
      [] a.type = "kv_del" -> ser_String("kv_del") \o ser_String(a.key)

ser_JobSpec(spec) == <<U64(spec.period_ms)>> \o ser_Action(spec.action)

ser_LegacySpec(old) == ser_String(old.cmd) \o <<U64(old.period_ms)>>

ser_JobState(st) ==
    <<U64(st.last_run_ms), U64(st.runs), U64(st.failures), U64(st.backoff_ms)>>

(* Deserialisation.  A result is [ok, val, rest]; reading past the end of  *)
(* the input is an error, trailing bytes are allowed.                      *)

Err == [ok |-> FALSE]

Ok(v, rest) == [ok |-> TRUE, val |-> v, rest |-> rest]

de_u64(b) == IF b # <<>> /\ Head(b).k = "u64" THEN Ok(Head(b).n, Tail(b)) ELSE Err

de_String(b) ==
    LET n == de_u64(b) IN
    IF ~n.ok THEN Err
    ELSE IF n.val = 0 THEN Ok("", n.rest)
    ELSE IF n.rest # <<>> /\ Head(n.rest).k = "str" /\ Head(n.rest).n = n.val
         THEN Ok(Head(n.rest).s, Tail(n.rest))
    ELSE Err

RECURSIVE de_Strings(_, _)
de_Strings(count, b) ==
    IF count = 0 THEN Ok(<<>>, b)
    ELSE LET h == de_String(b) IN
         IF ~h.ok THEN Err
         ELSE LET t == de_Strings(count - 1, h.rest) IN
              IF ~t.ok THEN Err ELSE Ok(<<h.val>> \o t.val, t.rest)

de_VecString(b) ==
    LET n == de_u64(b) IN IF ~n.ok THEN Err ELSE de_Strings(n.val, n.rest)

\* An internally tagged enum deserialises through deserialize_any, which
\* bincode does not support: decoding an Action fails on every input.
de_Action(b) == Err

de_JobSpec(b) ==
    LET p == de_u64(b) IN
    IF ~p.ok THEN Err
    ELSE LET a == de_Action(p.rest) IN
         IF ~a.ok THEN Err ELSE Ok(JobSpec(p.val, a.val), a.rest)

de_LegacySpec(b) ==
    LET c == de_String(b) IN
    IF ~c.ok THEN Err
    ELSE LET p == de_u64(c.rest) IN
         IF ~p.ok THEN Err ELSE Ok(LegacySpec(c.val, p.val), p.rest)

de_JobState(b) ==
    LET l == de_u64(b) IN
    IF ~l.ok THEN Err ELSE
    LET r == de_u64(l.rest) IN
    IF ~r.ok THEN Err ELSE
    LET f == de_u64(r.rest) IN
    IF ~f.ok THEN Err ELSE
    LET k == de_u64(f.rest) IN
    IF ~k.ok THEN Err ELSE Ok(JobState(l.val, r.val, f.val, k.val), k.rest)

----------------------------------------------------------------------------
(* JSON text of a spec, as a client writes it (serde_json names; fields    *)
(* with #[serde(default)] may be omitted).                                 *)

json_Action(a) ==
    CASE a.type = "noop" -> "{\"type\":\"noop\"}"
      [] a.type = "exec" ->
           "{\"type\":\"exec\",\"cmd\":\"" \o a.cmd \o "\""
           \o (IF a.timeout_ms = None THEN ""
               ELSE ",\"timeout_ms\":" \o ToString(a.timeout_ms[1]))
           \o "}"
      [] a.type = "http" -> "{\"type\":\"http\",\"url\":\"" \o a.url \o "\"}"
      [] a.type = "kv_del" -> "{\"type\":\"kv_del\",\"key\":\"" \o a.key \o "\"}"

json_JobSpec(spec) ==
    "{\"period_ms\":" \o ToString(spec.period_ms) \o ",\"action\":"
    \o json_Action(spec.action) \o "}"

----------------------------------------------------------------------------
(* Universe of inputs *)

JobIds == {"demo", "x"}

FrontIds == {"x"}

Times == {0, 100, HugeMs}

ExecFalse == Exec("false", <<>>, None)

\* specs handed to the typed upsert paths
TypedSpecs == {JobSpec(100, ExecFalse)}

\* legacy payloads of the web upsert
LegacySpecs == {LegacySpec("noop", 100)}

\* specs written as JSON text through the string-typed put
JsonSpecs == {JobSpec(100, ExecFalse), JobSpec(HugeMs, Http("u"))}

JsonTexts == {json_JobSpec(s) : s \in JsonSpecs}

\* specs of a command that never exits, with and without a timeout
HangSpecs ==
    {JobSpec(100, Exec("hang", <<>>, Some(100))), JobSpec(100, Exec("hang", <<>>, None))}

\* a job that deletes the demo job's spec entry
KvDelSpecs == {JobSpec(100, KvDel("jobs:demo:spec"))}

\* every spec that is put as JSON text somewhere
JsonParsed == JsonSpecs \cup HangSpecs \cup KvDelSpecs

\* serde_json::from_str::<JobSpec>: the spec whose JSON text this is
from_str(text) ==
    IF \E s \in JsonParsed : json_JobSpec(s) = text
    THEN Some(CHOOSE s \in JsonParsed : json_JobSpec(s) = text)
    ELSE None

----------------------------------------------------------------------------
(* Key/value store (core/src/store.rs): one file per key. *)

ns(n, key) == n \o ":" \o key

reg_key == ns("jobs", "registry")

spec_key(id) == ns("jobs", id \o ":spec")

state_key(id) == ns("jobs", id \o ":state")

Keys == {reg_key} \cup {spec_key(id) : id \in JobIds} \cup {state_key(id) : id \in JobIds}

NoFile == <<[k |-> "nofile", n |-> 0, s |-> ""]>>

get(store, key) == IF store[key] = NoFile THEN None ELSE Some(store[key])

put(store, key, val) == [store EXCEPT ![key] = val]

delete(store, key) == [store EXCEPT ![key] = NoFile]

\* bincode::deserialize::<T>, T named by a string
deserialize(T, b) ==
    CASE T = "JobSpec" -> de_JobSpec(b)
      [] T = "LegacySpec" -> de_LegacySpec(b)
      [] T = "JobState" -> de_JobState(b)
      [] T = "String" -> de_String(b)
      [] T = "Vec<String>" -> de_VecString(b)

\* KvSerde::get_t::<T>: Ok(None) when absent, Err when the bytes do not decode
get_t(store, key, T) ==
    IF get(store, key) = None THEN [ok |-> TRUE, val |-> None]
    ELSE LET r == deserialize(T, get(store, key)[1]) IN
         IF r.ok THEN [ok |-> TRUE, val |-> Some(r.val)]
         ELSE [ok |-> FALSE, val |-> None]

\* KvSerde::put_t for each stored type
put_t(store, key, bytes) == put(store, key, bytes)

\* Result::ok().flatten()
ok_flatten(r) == IF r.ok THEN r.val ELSE None

unwrap_or(o, d) == IF o = None THEN d ELSE o[1]

----------------------------------------------------------------------------
(* Spec resolution (scheduler.rs:44-59): JobSpec, then LegacySpec, then a  *)
(* typed String parsed as JSON.                                            *)

legacy_action(cmd) == IF cmd = "noop" THEN Noop ELSE Noop

\* the typed string tried before the legacy decoder
resolve_spec_string_first(store, key) ==
    LET new == ok_flatten(get_t(store, key, "JobSpec")) IN
    IF new # None THEN new
    ELSE LET s == get_t(store, key, "String") IN
         IF s.ok /\ s.val # None /\ from_str(s.val[1]) # None THEN from_str(s.val[1])
         ELSE LET old == get_t(store, key, "LegacySpec") IN
              IF old.ok /\ old.val # None
              THEN Some(JobSpec(old.val[1].period_ms, legacy_action(old.val[1].cmd)))
              ELSE None

resolve_spec(store, key) ==
    LET new == ok_flatten(get_t(store, key, "JobSpec")) IN
    IF new # None THEN new
    ELSE LET old == get_t(store, key, "LegacySpec") IN
         IF old.ok /\ old.val # None
         THEN Some(JobSpec(old.val[1].period_ms, legacy_action(old.val[1].cmd)))
         ELSE LET s == get_t(store, key, "String") IN
              IF s.ok /\ s.val # None THEN from_str(s.val[1]) ELSE None

----------------------------------------------------------------------------
(* Action executor (runner.rs): the outcome and the store it leaves. *)

\* exit status of the spawned process
exit_success(cmd) == cmd = "true"

\* serde_json::Value, by kind: "string", "posint" (a non-negative integer),
\* "negint" (a negative integer), "float", "null"
json_Value(kind, s, n) == [kind |-> kind, s |-> s, n |-> n]

as_str(value) == IF value.kind = "string" THEN Some(value.s) ELSE None

as_u64(value) == IF value.kind = "posint" THEN Some(value.n) ELSE None

\* u32 is half as wide as u64
U32_MAX == 2^(WordBits \div 2) - 1

\* `n as u32`: the high bits dropped
try_into_u32_cast(n) == Some(n % (U32_MAX + 1))

\* u32::try_from(n)
try_into_u32(n) == IF n <= U32_MAX THEN Some(n) ELSE None

U32(n) == [k |-> "u32", n |-> n, s |-> ""]

Failed(msg, store) == [ok |-> FALSE, err |-> msg, store |-> store]

Done(store) == [ok |-> TRUE, err |-> "", store |-> store]

\* the KvPut arm of execute
execute_kv_put(action, store) ==
    CASE action.decode \in {"utf8", "raw"} ->
           IF as_str(action.value) = None THEN Failed("value must be string", store)
           ELSE Done(put(store, action.key,
                         IF as_str(action.value)[1] = "" THEN <<>>
                         ELSE <<Bytes(as_str(action.value)[1])>>))
      [] action.decode = "string" ->
           IF as_str(action.value) = None THEN Failed("value must be string", store)
           ELSE Done(put_t(store, action.key, ser_String(as_str(action.value)[1])))
      [] action.decode = "u32" ->
           IF as_u64(action.value) = None THEN Failed("value must be number", store)
           ELSE IF try_into_u32(as_u64(action.value)[1]) = None
                THEN Failed("out of range", store)
                ELSE Done(put_t(store, action.key,
                                <<U32(try_into_u32(as_u64(action.value)[1])[1])>>))
      [] action.decode = "u64" ->
           IF as_u64(action.value) = None THEN Failed("value must be number", store)
           ELSE Done(put_t(store, action.key, <<U64(as_u64(action.value)[1])>>))
      [] OTHER -> Failed("unknown decode " \o action.decode, store)

\* deleting a key that is not there reported as an error
execute_kv_del_strict(action, store) ==
    CASE action.type = "noop" -> [ok |-> TRUE, store |-> store]
      [] action.type = "kv_put" ->
           [ok |-> execute_kv_put(action, store).ok,
            store |-> execute_kv_put(action, store).store]
      [] action.type = "kv_del" ->
           [ok |-> store[action.key] # NoFile, store |-> delete(store, action.key)]
      [] action.type = "exec" -> [ok |-> exit_success(action.cmd), store |-> store]
      [] action.type = "http" -> [ok |-> FALSE, store |-> store]

execute(action, store) ==
    CASE action.type = "noop" -> [ok |-> TRUE, store |-> store]
      [] action.type = "kv_put" ->
           [ok |-> execute_kv_put(action, store).ok,
            store |-> execute_kv_put(action, store).store]
      [] action.type = "kv_del" -> [ok |-> TRUE, store |-> delete(store, action.key)]
      [] action.type = "exec" -> [ok |-> exit_success(action.cmd), store |-> store]
      [] action.type = "http" -> [ok |-> FALSE, store |-> store]

----------------------------------------------------------------------------
(* Scheduler (scheduler.rs) *)

effective_period(state, spec) ==
    IF state.backoff_ms > 0 THEN state.backoff_ms ELSE spec.period_ms

\* wrapping instead of saturating subtraction
due_wrapping(now, state, spec) ==
    ((now - state.last_run_ms) % (2^WordBits)) >= effective_period(state, spec)

\* due only once more than the effective period has passed
due_strict(now, state, spec) ==
    saturating_sub(now, state.last_run_ms) > effective_period(state, spec)

due(now, state, spec) ==
    saturating_sub(now, state.last_run_ms) >= effective_period(state, spec)

\* a semaphore that never runs out
permit_free_unbounded(held) == TRUE

\* one permit too many
permit_free_off_by_one(held) == BagCardinality(held) <= MaxConcurrency

\* sem.try_acquire_owned() succeeds while fewer than max_concurrency
\* permits are held; every dispatched execution holds one
permit_free(held) == BagCardinality(held) < MaxConcurrency

\* wrapping instead of saturating multiplication
next_backoff_wrapping(backoff_ms, period_ms) ==
    Min((Max(backoff_ms, period_ms) * 2) % (2^WordBits), max_backoff_ms)

\* the cap left out
next_backoff_uncapped(backoff_ms, period_ms) ==
    saturating_mul(Max(backoff_ms, period_ms), 2)

\* the current backoff ignored
next_backoff_from_period(backoff_ms, period_ms) ==
    Min(saturating_mul(period_ms, 2), max_backoff_ms)

next_backoff(backoff_ms, period_ms) ==
    Min(saturating_mul(Max(backoff_ms, period_ms), 2), max_backoff_ms)

\* backoff_ms not reset
on_success_keep_backoff(st) ==
    [st EXCEPT !.runs = saturating_add(st.runs, 1), !.failures = 0]

\* the state an execution writes, from the state it read (last_run_ms
\* already set to the completion time) and its outcome
on_success(st) ==
    [st EXCEPT !.runs = saturating_add(st.runs, 1), !.failures = 0, !.backoff_ms = 0]

\* a failed attempt counted as a run
on_failure_counts_run(st, spec) ==
    [st EXCEPT !.runs = saturating_add(st.runs, 1),
               !.failures = saturating_add(st.failures, 1),
               !.backoff_ms = next_backoff(st.backoff_ms, spec.period_ms)]

on_failure(st, spec) ==
    [st EXCEPT !.failures = saturating_add(st.failures, 1),
               !.backoff_ms = next_backoff(st.backoff_ms, spec.period_ms)]

completed_state(res, st, spec) ==
    IF res = "ok" THEN on_success(st) ELSE on_failure(st, spec)

----------------------------------------------------------------------------
(* Front ends: scanner CLI (scanner/src/main.rs), web API (web.rs),        *)
(* sentinel start-up (sentinel/src/main.rs).  Each maps a store to the     *)
(* store it leaves.                                                        *)

\* every id dropped, not only the one deleted
retain_ne_clear(ids, id) == <<>>

RECURSIVE retain_ne(_, _)
retain_ne(ids, id) ==
    IF ids = <<>> THEN <<>>
    ELSE IF Head(ids) = id THEN retain_ne(Tail(ids), id)
    ELSE <<Head(ids)>> \o retain_ne(Tail(ids), id)

\* only the first id looked at
contains_first(ids, id) == ids # <<>> /\ ids[1] = id

contains(ids, id) == \E i \in 1..Len(ids) : ids[i] = id

EmptyStore == [key \in Keys |-> NoFile]

seed_demo_job(store) ==
    LET r == get_t(store, reg_key, "Vec<String>") IN
    IF ~r.ok THEN store
    ELSE LET ids == unwrap_or(r.val, <<>>) IN
         IF contains(ids, "demo") THEN store
         ELSE put_t(put_t(store, reg_key, ser_VecString(Append(ids, "demo"))),
                    spec_key("demo"), ser_JobSpec(JobSpec(demo_period_ms, Noop)))

upsert_job(store, id, spec) ==
    LET r == get_t(store, reg_key, "Vec<String>") IN
    IF ~r.ok THEN store
    ELSE LET ids == unwrap_or(r.val, <<>>)
             s1 == IF contains(ids, id) THEN store
                   ELSE put_t(store, reg_key, ser_VecString(Append(ids, id)))
             s2 == put_t(s1, spec_key(id), ser_JobSpec(spec))
         IN  put_t(s2, state_key(id), ser_JobState(JobState_default))

del_job(store, id) ==
    LET s1 == delete(store, spec_key(id))
        s2 == delete(s1, state_key(id))
        r == get_t(s2, reg_key, "Vec<String>")
    IN  IF r.ok /\ r.val # None
        THEN put_t(s2, reg_key, ser_VecString(retain_ne(r.val[1], id)))
        ELSE s2

\* payload: [kind |-> "legacy", id, cmd, period_ms] or [kind |-> "new", id, spec]
jobs_upsert(store, payload) ==
    LET prev == unwrap_or(ok_flatten(get_t(store, reg_key, "Vec<String>")), <<>>)
        ids == IF contains(prev, payload.id) THEN prev ELSE Append(prev, payload.id)
        s1 == put_t(store, reg_key, ser_VecString(ids))
    IN  IF payload.kind = "legacy"
        THEN put_t(s1, spec_key(payload.id),
                   ser_LegacySpec(LegacySpec(payload.cmd, payload.period_ms)))
        ELSE put_t(s1, spec_key(payload.id), ser_JobSpec(payload.spec))

jobs_delete(store, id) ==
    LET prev == unwrap_or(ok_flatten(get_t(store, reg_key, "Vec<String>")), <<>>)
        s1 == put_t(store, reg_key, ser_VecString(retain_ne(prev, id)))
        s2 == delete(s1, spec_key(id))
    IN  delete(s2, state_key(id))

\* PUT /kv/:key with decode "string"
kv_put(store, key, value) == put_t(store, key, ser_String(value))

\* DELETE /kv/:key
kv_del(store, key) == delete(store, key)

WebPayloads ==
    {[kind |-> "legacy", id |-> id, cmd |-> l.cmd, period_ms |-> l.period_ms] :
        id \in FrontIds, l \in LegacySpecs}
    \cup {[kind |-> "new", id |-> id, spec |-> sp] : id \in FrontIds, sp \in TypedSpecs}

----------------------------------------------------------------------------
(* State *)

VARIABLES
    kv,        \* the store: key -> stored bytes, or NoFile
    clock,     \* what now_ms() returns (wall clock, may be set back)
    sched,     \* tick driver: "waiting", "ticking", "stopped", "failed"
    tick_ids,  \* ids of the current tick not yet visited
    tick_now,  \* `now` of the current tick
    inflight,  \* bag of dispatched executions, each holding one permit
    shutdown   \* the broadcast shutdown flag

vars == <<kv, clock, sched, tick_ids, tick_now, inflight, shutdown>>

\* a dispatched execution: the clones moved into the spawned task, its
\* position, the result of execute and the state read back
Execution(id, spec) ==
    [id |-> id, spec |-> spec, pc |-> "running", res |-> "none",
     st |-> JobState_default]

Executions == BagToSet(inflight)

stored_state(store, id) ==
    unwrap_or(ok_flatten(get_t(store, state_key(id), "JobState")), JobState_default)

registry(store) ==
    unwrap_or(ok_flatten(get_t(store, reg_key, "Vec<String>")), <<>>)

Init ==
    /\ kv = seed_demo_job(EmptyStore)
    /\ clock = 0
    /\ sched = "waiting"
    /\ tick_ids = <<>>
    /\ tick_now = 0
    /\ inflight = EmptyBag
    /\ shutdown = FALSE

----------------------------------------------------------------------------
(* Tick driver *)

\* the model stops ticking once a stored counter has reached MaxCount
CountersBelowBound ==
    /\ \A id \in JobIds : /\ stored_state(kv, id).runs < MaxCount
                          /\ stored_state(kv, id).failures < MaxCount
    /\ \A e \in Executions : e.st.runs < MaxCount /\ e.st.failures < MaxCount

\* tick.tick() fires: read the registry and the clock
TickBegin ==
    /\ sched = "waiting"
    /\ CountersBelowBound
    /\ LET r == get_t(kv, reg_key, "Vec<String>") IN
       IF ~r.ok
       THEN /\ sched' = "failed"
            /\ UNCHANGED <<tick_ids, tick_now>>
       ELSE LET ids == unwrap_or(r.val, <<>>) IN
            IF ids = <<>>
            THEN UNCHANGED <<sched, tick_ids, tick_now>>
            ELSE /\ sched' = "ticking"
                 /\ tick_ids' = ids
                 /\ tick_now' = clock
    /\ UNCHANGED <<kv, clock, inflight, shutdown>>

\* what the loop body does with the id at the head of tick_ids
tick_id == Head(tick_ids)

tick_spec == resolve_spec(kv, spec_key(tick_id))

tick_state_r == get_t(kv, state_key(tick_id), "JobState")

tick_state == unwrap_or(tick_state_r.val, JobState_default)

\* an unresolvable spec treated as a read error
TickCase_abort_on_no_spec ==
    IF tick_spec = None THEN "state_error"
    ELSE IF ~tick_state_r.ok THEN "state_error"
    ELSE IF ~due(tick_now, tick_state, tick_spec[1]) THEN "not_due"
    ELSE IF ~permit_free(inflight) THEN "saturated"
    ELSE "dispatch"

\* the concurrency gate left out
TickCase_no_gate ==
    IF tick_spec = None THEN "no_spec"
    ELSE IF ~tick_state_r.ok THEN "state_error"
    ELSE IF ~due(tick_now, tick_state, tick_spec[1]) THEN "not_due"
    ELSE "dispatch"

\* a job with an execution still running is not dispatched again
TickCase_one_per_id ==
    IF tick_spec = None THEN "no_spec"
    ELSE IF ~tick_state_r.ok THEN "state_error"
    ELSE IF ~due(tick_now, tick_state, tick_spec[1]) THEN "not_due"
    ELSE IF \E e \in Executions : e.id = tick_id THEN "running"
    ELSE IF ~permit_free(inflight) THEN "saturated"
    ELSE "dispatch"

TickCase ==
    IF tick_spec = None THEN "no_spec"
    ELSE IF ~tick_state_r.ok THEN "state_error"
    ELSE IF ~due(tick_now, tick_state, tick_spec[1]) THEN "not_due"
    ELSE IF ~permit_free(inflight) THEN "saturated"
    ELSE "dispatch"

\* last_run_ms stamped into the job's state at dispatch
TickJob_stamps_dispatch ==
    /\ sched = "ticking"
    /\ IF TickCase = "state_error"
       THEN /\ sched' = "failed"
            /\ tick_ids' = <<>>
            /\ tick_now' = 0
            /\ UNCHANGED <<inflight, kv>>
       ELSE /\ tick_ids' = Tail(tick_ids)
            /\ sched' = IF Tail(tick_ids) = <<>> THEN "waiting" ELSE "ticking"
            /\ tick_now' = IF Tail(tick_ids) = <<>> THEN 0 ELSE tick_now
            /\ inflight' = IF TickCase = "dispatch"
                           THEN inflight (+) SetToBag({Execution(tick_id, tick_spec[1])})
                           ELSE inflight
            /\ kv' = IF TickCase = "dispatch"
                     THEN put_t(kv, state_key(tick_id),
                                ser_JobState([tick_state EXCEPT !.last_run_ms = tick_now]))
                     ELSE kv
    /\ UNCHANGED <<clock, shutdown>>

\* one iteration of `for id in ids`
TickJob ==
    /\ sched = "ticking"
    /\ IF TickCase = "state_error"
       THEN /\ sched' = "failed"
            /\ tick_ids' = <<>>
            /\ tick_now' = 0
            /\ UNCHANGED inflight
       ELSE /\ tick_ids' = Tail(tick_ids)
            /\ sched' = IF Tail(tick_ids) = <<>> THEN "waiting" ELSE "ticking"
            /\ tick_now' = IF Tail(tick_ids) = <<>> THEN 0 ELSE tick_now
            /\ inflight' = IF TickCase = "dispatch"
                           THEN inflight (+) SetToBag({Execution(tick_id, tick_spec[1])})
                           ELSE inflight
    /\ UNCHANGED <<kv, clock, shutdown>>

\* the flag seen and ignored
SchedStop_ignored ==
    /\ sched = "waiting"
    /\ shutdown
    /\ UNCHANGED <<kv, clock, sched, tick_ids, tick_now, inflight, shutdown>>

\* ctx.shutdown.changed() wins the select
SchedStop ==
    /\ sched = "waiting"
    /\ shutdown
    /\ sched' = "stopped"
    /\ UNCHANGED <<kv, clock, tick_ids, tick_now, inflight, shutdown>>

----------------------------------------------------------------------------
(* Spawned execution task *)

Replace(bag, e, f) == (bag (-) SetToBag({e})) (+) SetToBag({f})

\* the state read back after execute, last_run_ms set to now_ms()
read_state(e, store, now) ==
    [stored_state(store, e.id) EXCEPT !.last_run_ms = now]

\* execute returns; the task reads the job's state and the clock
ExecFinish(e) ==
    /\ e.pc = "running"
    /\ LET r == execute(e.spec.action, kv) IN
       /\ kv' = r.store
       /\ inflight' = Replace(inflight, e,
              [e EXCEPT !.pc = "read",
                        !.res = IF r.ok THEN "ok" ELSE "err",
                        !.st = read_state(e, r.store, clock)])
    /\ UNCHANGED <<clock, sched, tick_ids, tick_now, shutdown>>

\* the match on res and the put_t of the updated state
WriteState(e) ==
    /\ e.pc = "read"
    /\ kv' = put_t(kv, state_key(e.id),
                   ser_JobState(completed_state(e.res, e.st, e.spec)))
    /\ inflight' = Replace(inflight, e,
           [e EXCEPT !.pc = "written", !.res = "none", !.st = JobState_default])
    /\ UNCHANGED <<clock, sched, tick_ids, tick_now, shutdown>>

\* the permit given back before the state is written
Release_before_write(e) ==
    /\ e.pc = "read"
    /\ inflight' = inflight (-) SetToBag({e})
    /\ UNCHANGED <<kv, clock, sched, tick_ids, tick_now, shutdown>>

\* drop(permit)
Release(e) ==
    /\ e.pc = "written"
    /\ inflight' = inflight (-) SetToBag({e})
    /\ UNCHANGED <<kv, clock, sched, tick_ids, tick_now, shutdown>>

\* the error of a failed execution returned into the tick loop
Complete_error_escapes(e) ==
    /\ e.pc = "running"
    /\ LET r == execute(e.spec.action, kv) IN
       /\ kv' = r.store
       /\ sched' = IF r.ok THEN sched ELSE "failed"
    /\ inflight' = inflight (-) SetToBag({e})
    /\ UNCHANGED <<clock, tick_ids, tick_now, shutdown>>

\* the outcome dropped when the job's spec is no longer the dispatched one
Complete_stale_dropped(e) ==
    /\ e.pc = "running"
    /\ LET r == execute(e.spec.action, kv)
           res == IF r.ok THEN "ok" ELSE "err"
           st == read_state(e, r.store, clock)
       IN  kv' = IF resolve_spec(kv, spec_key(e.id)) = Some(e.spec)
                 THEN put_t(r.store, state_key(e.id),
                            ser_JobState(completed_state(res, st, e.spec)))
                 ELSE r.store
    /\ inflight' = inflight (-) SetToBag({e})
    /\ UNCHANGED <<clock, sched, tick_ids, tick_now, shutdown>>

\* the three steps above with no other task's store access in between
Complete(e) ==
    /\ e.pc = "running"
    /\ LET r == execute(e.spec.action, kv)
           res == IF r.ok THEN "ok" ELSE "err"
           st == read_state(e, r.store, clock)
       IN  kv' = put_t(r.store, state_key(e.id),
                       ser_JobState(completed_state(res, st, e.spec)))
    /\ inflight' = inflight (-) SetToBag({e})
    /\ UNCHANGED <<clock, sched, tick_ids, tick_now, shutdown>>

\* the same with the state write lost: FsKv::put cannot create its temp
\* file, writes nothing and reports nothing
CompleteLost(e) ==
    /\ e.pc = "running"
    /\ kv' = execute(e.spec.action, kv).store
    /\ inflight' = inflight (-) SetToBag({e})
    /\ UNCHANGED <<clock, sched, tick_ids, tick_now, shutdown>>

----------------------------------------------------------------------------
(* Environment: front ends, clock, shutdown signal *)

CliUpsertJob(id, spec) ==
    /\ kv' = upsert_job(kv, id, spec)
    /\ UNCHANGED <<clock, sched, tick_ids, tick_now, inflight, shutdown>>

CliDelJob(id) ==
    /\ kv' = del_job(kv, id)
    /\ UNCHANGED <<clock, sched, tick_ids, tick_now, inflight, shutdown>>

WebJobsUpsert(payload) ==
    /\ kv' = jobs_upsert(kv, payload)
    /\ UNCHANGED <<clock, sched, tick_ids, tick_now, inflight, shutdown>>

WebJobsDelete(id) ==
    /\ kv' = jobs_delete(kv, id)
    /\ UNCHANGED <<clock, sched, tick_ids, tick_now, inflight, shutdown>>

WebKvPut(key, value) ==
    /\ kv' = kv_put(kv, key, value)
    /\ UNCHANGED <<clock, sched, tick_ids, tick_now, inflight, shutdown>>

WebKvDel(key) ==
    /\ kv' = kv_del(kv, key)
    /\ UNCHANGED <<clock, sched, tick_ids, tick_now, inflight, shutdown>>

SetClock(t) ==
    /\ t # clock
    /\ clock' = t
    /\ UNCHANGED <<kv, sched, tick_ids, tick_now, inflight, shutdown>>

Shutdown ==
    /\ ~shutdown
    /\ shutdown' = TRUE
    /\ UNCHANGED <<kv, clock, sched, tick_ids, tick_now, inflight>>

Next ==
    \/ TickBegin
    \/ TickJob
    \/ SchedStop
    \/ \E e \in Executions : Complete(e)
    \/ \E e \in Executions : CompleteLost(e)
    \/ \E id \in FrontIds, sp \in TypedSpecs : CliUpsertJob(id, sp)
    \/ \E id \in FrontIds : CliDelJob(id)
    \/ \E payload \in WebPayloads : WebJobsUpsert(payload)
    \/ \E id \in FrontIds : WebJobsDelete(id)
    \/ \E id \in FrontIds, text \in JsonTexts : WebKvPut(spec_key(id), text)
    \/ \E id \in FrontIds : WebKvDel(spec_key(id))
    \/ \E t \in Times : SetClock(t)
    \/ Shutdown

Spec == Init /\ [][Next]_vars

----------------------------------------------------------------------------
(* The state update of an execution step by step (read, then write, then   *)
(* release), so that updates of concurrent executions interleave.  Job x   *)
(* was registered through the web API and its spec put as JSON text.       *)

InitRace ==
    /\ kv = kv_put(jobs_upsert(seed_demo_job(EmptyStore),
                       [kind |-> "legacy", id |-> "x", cmd |-> "noop", period_ms |-> 100]),
                   spec_key("x"), json_JobSpec(JobSpec(100, ExecFalse)))
    /\ clock = 0
    /\ sched = "waiting"
    /\ tick_ids = <<>>
    /\ tick_now = 0
    /\ inflight = EmptyBag
    /\ shutdown = FALSE

NextRace ==
    \/ TickBegin
    \/ TickJob
    \/ \E e \in Executions : ExecFinish(e)
    \/ \E e \in Executions : WriteState(e)
    \/ \E e \in Executions : Release(e)
    \/ WebKvPut(spec_key("x"), json_JobSpec(JobSpec(HugeMs, Http("u"))))
    \/ \E t \in Times : SetClock(t)

SpecRace == InitRace /\ [][NextRace]_vars

----------------------------------------------------------------------------
(* Properties *)

InFlight == BagCardinality(inflight)

Elapsed(now, last_run_ms) == IF now >= last_run_ms THEN now - last_run_ms ELSE 0

Period(state, spec) == IF state.backoff_ms # 0 THEN state.backoff_ms ELSE spec.period_ms

Count(ids, id) == Cardinality({i \in 1..Len(ids) : ids[i] = id})

Failing(e) == ~execute(e.spec.action, kv).ok

\* C1: in every reachable state the number of dispatched executions that
\* still hold their permit is at most max_concurrency.
C1_AtMostMaxConcurrency == InFlight <= MaxConcurrency

\* all permits taken while the tick finds one more job due
C1_Witness ==
    /\ InFlight = MaxConcurrency
    /\ sched = "ticking"
    /\ tick_spec # None
    /\ Elapsed(tick_now, tick_state.last_run_ms) >= Period(tick_state, tick_spec[1])

\* C2: a tick step dispatches only a job whose saturating difference
\* now - last_run_ms is at least its effective period (backoff_ms if
\* non-zero, else period_ms); with the clock before last_run_ms the
\* difference is 0.
C2_NoPrematureDispatch ==
    [][(TickJob /\ InFlight' > InFlight) =>
          /\ tick_spec # None
          /\ Elapsed(tick_now, tick_state.last_run_ms) >= Period(tick_state, tick_spec[1])
          /\ (tick_now < tick_state.last_run_ms => Period(tick_state, tick_spec[1]) = 0)]_vars

\* the tick is at a resolvable job whose last run lies after the tick's now
C2_Witness ==
    /\ sched = "ticking"
    /\ tick_spec # None
    /\ tick_now < tick_state.last_run_ms
    /\ Period(tick_state, tick_spec[1]) > 0
    /\ permit_free(inflight)

\* C3: the state written by a failed execution has failures one higher
\* (saturating), runs unchanged, last_run_ms the completion time and
\* backoff_ms = min(max(backoff_ms, period_ms) * 2 saturating, max_backoff_ms)
\* of the state read; from the default state that is failures = 1 and
\* backoff_ms = min(2 * period_ms, max_backoff_ms).
C3_FailureUpdate ==
    [][\A e \in Executions :
        (Complete(e) /\ Failing(e)) =>
          LET old == stored_state(kv, e.id)
              new == stored_state(kv', e.id)
              grown == IF old.backoff_ms >= e.spec.period_ms
                       THEN old.backoff_ms ELSE e.spec.period_ms
              doubled == IF grown * 2 > U64_MAX THEN U64_MAX ELSE grown * 2
          IN  /\ kv'[state_key(e.id)] # NoFile
              /\ new.failures = (IF old.failures = U64_MAX THEN U64_MAX ELSE old.failures + 1)
              /\ new.runs = old.runs
              /\ new.last_run_ms = clock
              /\ new.backoff_ms = (IF doubled <= max_backoff_ms THEN doubled ELSE max_backoff_ms)
              /\ (old = JobState_default =>
                    /\ new.failures = 1
                    /\ new.backoff_ms = Min(2 * e.spec.period_ms, max_backoff_ms))]_vars

\* one failed execution of a period-100 job from the default state
C3_Witness ==
    /\ stored_state(kv, "x").failures = 1
    /\ stored_state(kv, "x").runs = 0
    /\ stored_state(kv, "x").backoff_ms = 200

\* C4: the state written by a successful execution has failures = 0 and
\* backoff_ms = 0 together, runs one higher (saturating) and last_run_ms
\* the completion time.
C4_SuccessUpdate ==
    [][\A e \in Executions :
        (Complete(e) /\ ~Failing(e)) =>
          LET old == stored_state(kv, e.id)
              new == stored_state(kv', e.id)
          IN  /\ kv'[state_key(e.id)] # NoFile
              /\ new.runs = (IF old.runs = U64_MAX THEN U64_MAX ELSE old.runs + 1)
              /\ new.failures = 0
              /\ new.backoff_ms = 0
              /\ new.last_run_ms = clock]_vars

\* a success has been recorded, the job has failed since, and an execution
\* that will succeed is in flight
C4_Witness ==
    /\ stored_state(kv, "x").runs > 0
    /\ stored_state(kv, "x").failures > 0
    /\ stored_state(kv, "x").backoff_ms > 0
    /\ \E e \in Executions : e.id = "x" /\ ~Failing(e)

\* C5 as stated: the state write of a failed execution never lowers the
\* job's stored backoff_ms.
C5_StoredBackoffNeverDecreases ==
    [][\A e \in Executions :
        (WriteState(e) /\ e.res = "err") =>
          stored_state(kv', e.id).backoff_ms >= stored_state(kv, e.id).backoff_ms]_vars

\* C5 amended: the backoff_ms a failed execution writes is at least the
\* backoff_ms that execution read.
C5_WrittenBackoffAtLeastRead ==
    [][\A e \in Executions :
        (WriteState(e) /\ e.res = "err") =>
          stored_state(kv', e.id).backoff_ms >= e.st.backoff_ms]_vars

\* a failed execution is about to write after reading a non-zero backoff
\* left by an earlier failure
C5_Witness ==
    \E e \in Executions :
        /\ e.pc = "read"
        /\ e.res = "err"
        /\ e.st.failures > 0
        /\ e.st.backoff_ms > 0

\* C6: the backoff_ms stored for any job never exceeds max_backoff_ms.
C6_BackoffCapped ==
    \A id \in JobIds : stored_state(kv, id).backoff_ms <= max_backoff_ms

\* a failing job whose doubled period exceeds the cap sits at the cap
C6_Witness ==
    /\ stored_state(kv, "x").failures > 0
    /\ stored_state(kv, "x").backoff_ms = max_backoff_ms

\* C7: for an id without a resolvable spec the tick changes no stored
\* entry (state, spec, registry), dispatches nothing and goes on to the
\* remaining ids or the next tick.
C7_UnresolvableSkipped ==
    [][(TickJob /\ tick_spec = None) =>
          /\ kv' = kv
          /\ inflight' = inflight
          /\ tick_ids' = Tail(tick_ids)
          /\ sched' = (IF Tail(tick_ids) = <<>> THEN "waiting" ELSE "ticking")]_vars

\* the tick has passed the undecodable demo spec and is at x, whose spec
\* entry is missing while its state entry holds a run
C7_Witness ==
    /\ sched = "ticking"
    /\ tick_ids = <<"x">>
    /\ registry(kv) = <<"demo", "x">>
    /\ resolve_spec(kv, spec_key("demo")) = None
    /\ kv[spec_key("x")] = NoFile
    /\ stored_state(kv, "x").runs > 0

\* C8: a due job that finds no permit free is passed over in the same
\* step (no wait, no stored change, nothing added to the in-flight set),
\* and an execution is only ever added by a tick step that finds the job
\* due and a permit free.
C8_SaturatedSkipped ==
    [][/\ (TickJob /\ TickCase = "saturated") =>
             /\ kv' = kv
             /\ inflight' = inflight
             /\ tick_ids' = Tail(tick_ids)
             /\ sched' = (IF Tail(tick_ids) = <<>> THEN "waiting" ELSE "ticking")
       /\ (InFlight' > InFlight) =>
             /\ TickJob
             /\ tick_spec # None
             /\ Elapsed(tick_now, tick_state.last_run_ms) >= Period(tick_state, tick_spec[1])
             /\ InFlight < MaxConcurrency
             /\ inflight' = inflight (+) SetToBag({Execution(tick_id, tick_spec[1])})]_vars

\* the tick is at a due job with every permit held by running executions
C8_Witness ==
    /\ sched = "ticking"
    /\ TickCase = "saturated"
    /\ \A e \in Executions : e.pc = "running"

\* post-state of an upsert of id storing bytes as its spec
UpsertPost(id, bytes) ==
    /\ Count(registry(kv'), id) = 1
    /\ kv'[spec_key(id)] = bytes
    /\ stored_state(kv', id) = JobState_default

\* C9: every upsert, through the CLI or the web API, leaves the id in the
\* registry exactly once, stores the new spec and leaves the job's state
\* at the all-zero default.
C9_UpsertResetsState ==
    [][/\ \A id \in FrontIds, sp \in TypedSpecs :
             CliUpsertJob(id, sp) => UpsertPost(id, ser_JobSpec(sp))
       /\ \A payload \in WebPayloads :
             WebJobsUpsert(payload) =>
                UpsertPost(payload.id,
                    IF payload.kind = "legacy"
                    THEN ser_LegacySpec(LegacySpec(payload.cmd, payload.period_ms))
                    ELSE ser_JobSpec(payload.spec))]_vars

\* id is out of the registry and has neither a spec nor a state entry
Deleted(store, id) ==
    /\ ~contains(registry(store), id)
    /\ store[spec_key(id)] = NoFile
    /\ store[state_key(id)] = NoFile

\* C10: once an id is out of the registry with its spec and state entries
\* gone, no step of the scheduler (a tick or the completion of an execution
\* dispatched earlier) brings a spec or state entry for it back.
C10_DeletedStaysDeleted ==
    [][\A id \in FrontIds :
        (/\ Deleted(kv, id)
         /\ (TickBegin \/ TickJob \/ SchedStop \/ \E e \in Executions : Complete(e)))
        => Deleted(kv', id)]_vars

\* a step of a front end: only the store changes
FrontEndStep == UNCHANGED <<clock, sched, tick_ids, tick_now, inflight, shutdown>>

\* keys other than the spec and state entry of id hold the same bytes in
\* both stores
OthersUnchanged(before, after, id) ==
    \A k \in Keys \ {reg_key, spec_key(id), state_key(id)} : after[k] = before[k]

\* C11: a delete (CLI or web) of an id that is not in the registry meets no
\* read error, leaves the registry's sequence of ids and every other job's
\* entries unchanged, and a second delete of the same id changes nothing
\* the first one left.
C11_DeleteAbsentIsNoOp ==
    [][\A id \in FrontIds :
        (FrontEndStep /\ (CliDelJob(id) \/ WebJobsDelete(id))) =>
            /\ get_t(kv, reg_key, "Vec<String>").ok
            /\ ~contains(registry(kv), id) =>
                  /\ registry(kv') = registry(kv)
                  /\ OthersUnchanged(kv, kv', id)
            /\ del_job(kv', id) = kv'
            /\ jobs_delete(kv', id) = kv']_vars

\* x is out of the registry after having been registered and dispatched,
\* and an entry of it is still stored
C11_Witness ==
    /\ ~contains(registry(kv), "x")
    /\ contains(registry(kv), "demo")
    /\ \E e \in Executions : e.id = "x"
    /\ kv[spec_key("x")] # NoFile

----------------------------------------------------------------------------
(* End-to-end scenario: job x with period 100 and action Noop, two ticks   *)
(* 150 ms apart, every dispatched execution completing (at the tick's own  *)
(* clock reading) before anything else happens.                            *)

\* clock readings of the first tick
ScenarioStarts == 0..149

\* the store after the loop body has visited ids at `now`, each dispatched
\* execution run to completion on the spot
RECURSIVE run_tick(_, _, _)
run_tick(store, ids, now) ==
    IF ids = <<>> THEN store
    ELSE LET id == Head(ids)
             spec == resolve_spec(store, spec_key(id))
             state_r == get_t(store, state_key(id), "JobState")
             state == unwrap_or(state_r.val, JobState_default)
         IN  IF spec = None THEN run_tick(store, Tail(ids), now)
             ELSE IF ~state_r.ok THEN store
             ELSE IF ~due(now, state, spec[1]) THEN run_tick(store, Tail(ids), now)
             ELSE LET r == execute(spec[1].action, store)
                      st == [stored_state(r.store, id) EXCEPT !.last_run_ms = now]
                      done == put_t(r.store, state_key(id),
                                    ser_JobState(completed_state(
                                        IF r.ok THEN "ok" ELSE "err", st, spec[1])))
                  IN  run_tick(done, Tail(ids), now)

\* x registered through the web API (legacy payload) or through the CLI
ScenarioStores ==
    {jobs_upsert(seed_demo_job(EmptyStore),
                 [kind |-> "legacy", id |-> "x", cmd |-> "noop",
                  period_ms |-> 100]),
     upsert_job(seed_demo_job(EmptyStore), "x", JobSpec(100, Noop))}

\* ticks run so far: the clock starts below 150 and advances by 150 with
\* every tick
ScenarioTicks == clock \div 150

InitScenario ==
    /\ kv \in ScenarioStores
    /\ clock \in ScenarioStarts
    /\ sched = "waiting"
    /\ tick_ids = <<>>
    /\ tick_now = 0
    /\ inflight = EmptyBag
    /\ shutdown = FALSE

\* one tick with its executions, then the wait for the next tick
ScenarioTick ==
    /\ ScenarioTicks < 2
    /\ kv' = run_tick(kv, registry(kv), clock)
    /\ clock' = clock + 150
    /\ UNCHANGED <<sched, tick_ids, tick_now, inflight, shutdown>>

NextScenario == ScenarioTick

SpecScenario == InitScenario /\ [][NextScenario]_vars

\* C12: after the two ticks of the scenario the stored state of x has
\* runs = 1 (exactly one successful execution).
C12_ScenarioRunsOnce ==
    ScenarioTicks = 2 => stored_state(kv, "x").runs = 1

----------------------------------------------------------------------------
(* Store entries written from outside the job front ends: PUT /kv/:key and *)
(* DELETE /kv/:key on the registry key and on the state key of job x,      *)
(* which was registered through the web API.                               *)

\* a text too short to hold a job state or a list of ids
ForeignText == "bad"

ForeignKeys == {reg_key, state_key("x")}

InitForeign ==
    /\ kv = jobs_upsert(seed_demo_job(EmptyStore),
                [kind |-> "legacy", id |-> "x", cmd |-> "noop", period_ms |-> 100])
    /\ clock = 0
    /\ sched = "waiting"
    /\ tick_ids = <<>>
    /\ tick_now = 0
    /\ inflight = EmptyBag
    /\ shutdown = FALSE

NextForeign ==
    \/ TickBegin
    \/ TickJob
    \/ \E e \in Executions : Complete(e)
    \/ \E key \in ForeignKeys : WebKvPut(key, ForeignText)
    \/ \E key \in ForeignKeys : WebKvDel(key)
    \/ \E payload \in WebPayloads : WebJobsUpsert(payload)
    \/ \E t \in Times : SetClock(t)

SpecForeign == InitForeign /\ [][NextForeign]_vars

\* C14: whatever bytes the registry entry and the state entries hold, the
\* tick driver never ends with an error.
C14_TicksSurviveStoreContent == sched # "failed"

----------------------------------------------------------------------------
(* Shutdown: job x registered through the web API, the scheduler running,  *)
(* ctrl-c at any moment.  The select runs the body of the branch it took   *)
(* to its end before it looks at the shutdown flag again, so towards the   *)
(* flag a tick is one step; between ticks the driver waits for the         *)
(* interval, during which a changed flag is the only ready branch.         *)

\* the permits held after the loop body has visited ids, or the read error
\* that ended it
RECURSIVE visit_ids(_, _, _, _)
visit_ids(store, ids, now, held) ==
    IF ids = <<>> THEN [ok |-> TRUE, held |-> held]
    ELSE LET id == Head(ids)
             spec == resolve_spec(store, spec_key(id))
             state_r == get_t(store, state_key(id), "JobState")
             state == unwrap_or(state_r.val, JobState_default)
         IN  IF spec = None THEN visit_ids(store, Tail(ids), now, held)
             ELSE IF ~state_r.ok THEN [ok |-> FALSE, held |-> held]
             ELSE IF ~due(now, state, spec[1]) \/ ~permit_free(held)
                  THEN visit_ids(store, Tail(ids), now, held)
             ELSE visit_ids(store, Tail(ids), now,
                            held (+) SetToBag({Execution(id, spec[1])}))

\* tick.tick() fires and the whole branch body runs
TickWhole ==
    /\ sched = "waiting"
    /\ CountersBelowBound
    /\ \E r \in {get_t(kv, reg_key, "Vec<String>")} :
         \E v \in {visit_ids(kv, unwrap_or(r.val, <<>>), clock, inflight)} :
           /\ inflight' = v.held
           /\ sched' = IF r.ok /\ v.ok THEN sched ELSE "failed"
    /\ UNCHANGED <<kv, clock, tick_ids, tick_now, shutdown>>

NextStop ==
    \/ TickWhole
    \/ SchedStop
    \/ \E e \in Executions : Complete(e)
    \/ \E payload \in WebPayloads : WebJobsUpsert(payload)
    \/ \E key \in {spec_key("x")}, text \in JsonTexts : WebKvPut(key, text)
    \/ \E t \in Times : SetClock(t)
    \/ Shutdown

SpecStop ==
    /\ InitForeign
    /\ [][NextStop]_vars
    /\ SF_vars(SchedStop)

\* C15: once the flag is true the tick driver eventually stops; a stopped
\* driver stays stopped and adds no execution; an execution completing
\* after the stop still stores its state update.
C15_StopsAndLeavesExecutions ==
    /\ shutdown ~> (sched = "stopped")
    /\ [][sched = "stopped" =>
            /\ sched' = "stopped"
            /\ BagCardinality(inflight') <= BagCardinality(inflight)]_vars
    /\ [][\A e \in Executions :
            (sched = "stopped" /\ Complete(e)) =>
                /\ kv'[state_key(e.id)] # NoFile
                /\ stored_state(kv', e.id).last_run_ms = clock
                /\ IF Failing(e)
                   THEN stored_state(kv', e.id).failures
                          = saturating_add(stored_state(kv, e.id).failures, 1)
                   ELSE stored_state(kv', e.id).runs
                          = saturating_add(stored_state(kv, e.id).runs, 1)]_vars

\* the driver has stopped with executions of x still in flight
C15_Witness ==
    /\ shutdown
    /\ sched = "stopped"
    /\ \E e \in Executions : e.id = "x" /\ e.pc = "running"

----------------------------------------------------------------------------
(* Permit accounting, the execution task step by step: job x starts with   *)
(* a noop action (success path) and is switched to a failing command.      *)

NextPermit ==
    \/ TickBegin
    \/ TickJob
    \/ \E e \in Executions : ExecFinish(e)
    \/ \E e \in Executions : WriteState(e)
    \/ \E e \in Executions : Release(e)
    \/ WebKvPut(spec_key("x"), json_JobSpec(JobSpec(100, ExecFalse)))
    \/ \E t \in {100, HugeMs} : SetClock(t)

SpecPermit == InitForeign /\ [][NextPermit]_vars

\* C16: an execution keeps its permit through execute and through the
\* state write, whatever the outcome; a permit comes back only by the drop
\* that follows the write, one at a time; permits held never exceed
\* max_concurrency and one is taken only by a dispatching tick step.
C16_PermitHeldUntilWritten ==
    /\ [](InFlight <= MaxConcurrency)
    /\ [][/\ \A e \in Executions :
                (ExecFinish(e) \/ WriteState(e)) => InFlight' = InFlight
          /\ \A e \in Executions :
                WriteState(e) => kv'[state_key(e.id)] # NoFile
          /\ InFlight' < InFlight =>
                \E e \in Executions :
                    /\ e.pc = "written"
                    /\ inflight' = inflight (-) SetToBag({e})
                    /\ kv' = kv
          /\ InFlight' > InFlight =>
                /\ InFlight' = InFlight + 1
                /\ TickJob]_vars

\* all permits are held, one by an execution that succeeded and one by an
\* execution that failed, both with the state written and the drop to come
C16_Witness ==
    /\ InFlight = MaxConcurrency
    /\ \E e \in Executions : e.pc = "written" /\ e.spec.action = Noop
    /\ \E e \in Executions : e.pc = "written" /\ e.spec.action = ExecFalse

----------------------------------------------------------------------------
(* FsKv at file granularity (core/src/store.rs).  Here kv is the store     *)
(* directory, file name -> content or NoFile, a content being a sequence   *)
(* of chunks, and inflight holds the put calls in progress.  A key is a    *)
(* sequence of bytes; a put writes its value in two chunks.                *)

hex_digit(n) ==
    IF n \in 0..15
    THEN <<"0", "1", "2", "3", "4", "5", "6", "7", "8", "9",
           "a", "b", "c", "d", "e", "f">>[n + 1]
    ELSE "?"

\* the file name under the root; "" is the root directory itself
RECURSIVE path_for(_)
path_for(key) ==
    IF key = <<>> THEN ""
    ELSE hex_digit((Head(key) \div 16) % 16) \o hex_digit(Head(key) % 16)
         \o path_for(Tail(key))

\* the value written straight into the target
with_extension_none(name) == name

\* path.with_extension("tmp"); for the root it is a sibling of the root
with_extension(name) == IF name = "" THEN "../kv.tmp" ELSE name \o ".tmp"

IsDir(name) == name = ""

FsKeys == {<<>>, <<1, 16>>, <<17, 0>>}

FsValues == {<<Bytes("a"), Bytes("b")>>, <<Bytes("c"), Bytes("d")>>}

Writers == {"p", "q"}

\* where the file behind an open descriptor is once its name is gone
Unlinked == "(unlinked)"

\* the content after writing chunk at chunk offset off; a write past the
\* end leaves a hole of zero bytes
write_at(content, off, chunk) ==
    IF off < Len(content) THEN [content EXCEPT ![off + 1] = chunk]
    ELSE content \o [i \in 1..(off - Len(content)) |-> U8(0)] \o <<chunk>>

\* FsKv::get: open and read_to_end
FsKv_get(dir, key) ==
    IF IsDir(path_for(key)) \/ dir[path_for(key)] = NoFile THEN None
    ELSE Some(dir[path_for(key)])

\* descriptors follow their file: open files named from are now named to,
\* files that were named to have lost their name
Moved(ops, from, to) ==
    LET f(o) == IF o.at = from THEN [o EXCEPT !.at = to]
                ELSE IF o.at = to THEN [o EXCEPT !.at = Unlinked]
                ELSE o
    IN  SetToBag({f(o) : o \in BagToSet(ops)})

FsFrame == UNCHANGED <<clock, sched, tick_ids, tick_now, shutdown>>

\* a call of put
FsPutCall(w, key, val) ==
    /\ \A o \in Executions : o.w # w
    /\ inflight' = inflight (+) SetToBag({
           [w |-> w, key |-> key, val |-> val, pc |-> "called", off |-> 0,
            at |-> Unlinked]})
    /\ UNCHANGED kv
    /\ FsFrame

\* File::create(&tmp): the temp file is created, or truncated if it exists
FsPutCreate(o) ==
    /\ o.pc = "called"
    /\ LET tmp == with_extension(path_for(o.key)) IN
       /\ kv' = [kv EXCEPT ![tmp] = <<>>]
       /\ inflight' = Replace(inflight, o, [o EXCEPT !.pc = "open", !.at = tmp])
    /\ FsFrame

\* write_all, one chunk
FsPutWrite(o) ==
    /\ o.pc = "open"
    /\ o.off < Len(o.val)
    /\ kv' = IF o.at = Unlinked THEN kv
             ELSE [kv EXCEPT ![o.at] = write_at(@, o.off, o.val[o.off + 1])]
    /\ inflight' = Replace(inflight, o, [o EXCEPT !.off = o.off + 1])
    /\ FsFrame

\* sync_all, then fs::rename(tmp, path) with its result ignored; put returns
FsPutRename(o) ==
    /\ o.pc = "open"
    /\ o.off = Len(o.val)
    /\ LET dst == path_for(o.key)
           tmp == with_extension(dst)
           rest == inflight (-) SetToBag({o})
       IN  IF kv[tmp] # NoFile /\ ~IsDir(dst) /\ tmp # dst
           THEN /\ kv' = [kv EXCEPT ![dst] = kv[tmp], ![tmp] = NoFile]
                /\ inflight' = Moved(rest, tmp, dst)
           ELSE /\ kv' = kv
                /\ inflight' = rest
    /\ FsFrame

\* the process running the put stops
FsCrash(o) ==
    /\ inflight' = inflight (-) SetToBag({o})
    /\ UNCHANGED kv
    /\ FsFrame

\* FsKv::delete: fs::remove_file(path).is_ok() and the directory after it
FsKv_delete(dir, key) ==
    IF IsDir(path_for(key)) THEN [ok |-> FALSE, dir |-> dir]
    ELSE [ok |-> dir[path_for(key)] # NoFile,
          dir |-> [dir EXCEPT ![path_for(key)] = NoFile]]

FsDelete(key) ==
    /\ kv' = FsKv_delete(kv, key).dir
    /\ inflight' = Moved(inflight, path_for(key), Unlinked)
    /\ FsFrame

InitFs ==
    /\ kv = [n \in {path_for(k) : k \in FsKeys}
                   \cup {with_extension(path_for(k)) : k \in FsKeys} |-> NoFile]
    /\ clock = 0
    /\ sched = "waiting"
    /\ tick_ids = <<>>
    /\ tick_now = 0
    /\ inflight = EmptyBag
    /\ shutdown = FALSE

\* puts of two writers running concurrently
NextFs ==
    \/ \E w \in Writers, key \in FsKeys, val \in FsValues : FsPutCall(w, key, val)
    \/ \E o \in Executions : FsPutCreate(o)
    \/ \E o \in Executions : FsPutWrite(o)
    \/ \E o \in Executions : FsPutRename(o)
    \/ \E key \in FsKeys : FsDelete(key)

SpecFs == InitFs /\ [][NextFs]_vars

\* one operation at a time, a put possibly cut short by its process stopping
NextFsSeq ==
    \/ \E w \in Writers, key \in FsKeys, val \in FsValues :
          inflight = EmptyBag /\ FsPutCall(w, key, val)
    \/ \E o \in Executions : FsPutCreate(o)
    \/ \E o \in Executions : FsPutWrite(o)
    \/ \E o \in Executions : FsPutRename(o)
    \/ \E o \in Executions : FsCrash(o)
    \/ \E key \in FsKeys : inflight = EmptyBag /\ FsDelete(key)

SpecFsSeq == InitFs /\ [][NextFsSeq]_vars

\* what a get of key may return: nothing, or a value some put was given
Whole(dir, key) ==
    FsKv_get(dir, key) = None \/ \E v \in FsValues : FsKv_get(dir, key) = Some(v)

\* C17: with puts running concurrently, a get of any key returns nothing or
\* the complete value of some put.
C17_GetReturnsWholeValue == \A key \in FsKeys : Whole(kv, key)

\* C18: a put whose process stops before the rename leaves every key
\* reading as before: the steps before the rename, and the stop itself,
\* change no key's value, and a key never reads as part of a value.
C18_StoppedPutKeepsPrevious ==
    /\ [](\A key \in FsKeys : Whole(kv, key))
    /\ [][\A o \in Executions :
            (FsPutCreate(o) \/ FsPutWrite(o) \/ FsCrash(o)) =>
                \A key \in FsKeys : FsKv_get(kv', key) = FsKv_get(kv, key)]_vars

\* a put of a second value to a key stopped after its first chunk
C18_Witness ==
    /\ inflight = EmptyBag
    /\ \E key \in FsKeys, old \in FsValues, new \in FsValues :
          /\ old # new
          /\ FsKv_get(kv, key) = Some(old)
          /\ kv[with_extension(path_for(key))] = <<new[1]>>

\* C19: one operation at a time, a completed put(k, v) makes get(k) return
\* v, a delete(k) makes get(k) return nothing and reports whether k had a
\* value, and neither changes what any other key reads.
C19_SequentialHistory ==
    [][/\ \A o \in Executions :
            FsPutRename(o) =>
                /\ FsKv_get(kv', o.key) = Some(o.val)
                /\ \A key \in FsKeys \ {o.key} : FsKv_get(kv', key) = FsKv_get(kv, key)
       /\ \A k \in FsKeys :
            FsDelete(k) =>
                /\ FsKv_get(kv', k) = None
                /\ FsKv_delete(kv, k).ok <=> FsKv_get(kv, k) # None
                /\ \A key \in FsKeys \ {k} : FsKv_get(kv', key) = FsKv_get(kv, key)]_vars

----------------------------------------------------------------------------
(* KvPut executions (runner.rs): one execution of a KvPut action on the    *)
(* key "n", which holds nothing or an earlier u32.                         *)

Decodes == {"utf8", "raw", "string", "u32", "u64", "u16"}

Values ==
    {json_Value("string", "7", 0), json_Value("posint", "", 0),
     json_Value("posint", "", U32_MAX), json_Value("posint", "", U32_MAX + 1),
     json_Value("posint", "", U64_MAX), json_Value("negint", "", -1),
     json_Value("float", "", 0), json_Value("null", "", 0)}

InitKvPut ==
    /\ \E prior \in {NoFile, <<U32(1)>>} :
          kv = [k \in Keys \cup {"n"} |-> IF k = "n" THEN prior ELSE NoFile]
    /\ \E decode \in Decodes, value \in Values :
          inflight = SetToBag({Execution("x", JobSpec(100, KvPut("n", decode, value)))})
    /\ clock = 0
    /\ sched = "waiting"
    /\ tick_ids = <<>>
    /\ tick_now = 0
    /\ shutdown = FALSE

NextKvPut ==
    \/ \E e \in Executions : ExecFinish(e)
    \/ \E e \in Executions : WriteState(e)
    \/ \E e \in Executions : Release(e)

SpecKvPut == InitKvPut /\ [][NextKvPut]_vars

\* C20: a KvPut with decode "u32" succeeds exactly for a non-negative
\* integer value not above the largest u32 and then stores that u32; above
\* it the error is "out of range", for a string or a negative number it is
\* the type error; an unknown decode fails; a failing KvPut leaves the
\* target key as it was.
C20_KvPutU32 ==
    [][\A e \in Executions :
        ExecFinish(e) =>
            LET a == e.spec.action
                ok == \E f \in BagToSet(inflight') : f.res = "ok"
                err == execute_kv_put(a, kv).err
            IN  /\ a.decode = "u32" =>
                     /\ ok <=> (a.value.kind = "posint" /\ a.value.n <= U32_MAX)
                     /\ ok => kv'[a.key] = <<U32(a.value.n)>>
                     /\ (a.value.kind = "posint" /\ a.value.n > U32_MAX) =>
                            err = "out of range"
                     /\ a.value.kind \in {"string", "negint"} =>
                            err = "value must be number"
                /\ a.decode = "u16" => ~ok
                /\ ~ok => kv' = kv]_vars

\* the largest u32 stored over an earlier value, and a refused larger value
C20_Witness ==
    \E e \in Executions :
        /\ e.pc = "read"
        /\ e.spec.action.decode = "u32"
        /\ \/ /\ e.res = "ok"
              /\ kv["n"] = <<U32(U32_MAX)>>
           \/ /\ e.res = "err"
              /\ e.spec.action.value = json_Value("posint", "", U32_MAX + 1)
              /\ kv["n"] = <<U32(1)>>

----------------------------------------------------------------------------
(* Resolution, dispatch and completion under overlap *)

\* C21: a spec stored by the typed upsert resolves, through the scheduler's
\* resolver, to that same spec, and the legacy spec ("noop", 500) resolves
\* to JobSpec(500, Noop).
C21_SpecRoundTrip ==
    [][\A id \in FrontIds, sp \in TypedSpecs :
        CliUpsertJob(id, sp) =>
            /\ resolve_spec(kv', spec_key(id)) = Some(sp)
            /\ resolve_spec(put_t(kv', spec_key(id),
                                  ser_LegacySpec(LegacySpec("noop", 500))),
                            spec_key(id)) = Some(JobSpec(500, Noop))]_vars

\* C22: a tick step at a job that has an execution in flight, is due by
\* the stored state and finds a permit free dispatches one more execution
\* of it and writes nothing; the executions in flight, of one id or of
\* several, are never more than max_concurrency.
C22_RedispatchWhileRunning ==
    /\ [](InFlight <= MaxConcurrency)
    /\ [][(/\ InFlight < MaxConcurrency
           /\ TickJob
           /\ \E e \in Executions : e.id = tick_id
           /\ tick_spec # None
           /\ tick_state_r.ok
           /\ Elapsed(tick_now, tick_state.last_run_ms) >= Period(tick_state, tick_spec[1])) =>
              /\ inflight' = inflight (+) SetToBag({Execution(tick_id, tick_spec[1])})
              /\ kv' = kv]_vars

\* every permit held by a running execution of x
C22_Witness ==
    /\ MaxConcurrency > 1
    /\ \E e \in Executions :
          /\ e.id = "x"
          /\ e.pc = "running"
          /\ CopiesIn(e, inflight) = MaxConcurrency

\* Executions of x up to their state write, their permits still held: the
\* executions that have written are the ones in flight with pc "written".
NextLost ==
    \/ TickBegin
    \/ TickJob
    \/ \E e \in Executions : ExecFinish(e)
    \/ \E e \in Executions : WriteState(e)
    \/ WebKvPut(spec_key("x"), json_JobSpec(JobSpec(100, ExecFalse)))
    \/ \E t \in {100, HugeMs} : SetClock(t)

SpecLost == InitForeign /\ [][NextLost]_vars

\* the number of executions that have written their state after failing
\* (failed = TRUE) or after succeeding (failed = FALSE)
Written(failed) ==
    BagCardinality([e \in {f \in Executions : f.pc = "written" /\ Failing(f) = failed}
                        |-> inflight[e]])

\* C23: the stored runs of x is never larger than the number of successful
\* executions of x that have written their state, and the stored failures
\* never larger than the number of failed ones.
C23_CountsNeverAboveCompletions ==
    /\ stored_state(kv, "x").runs <= Written(FALSE)
    /\ stored_state(kv, "x").failures <= Written(TRUE)

\* two successful executions have written and runs is 1: both read the
\* same state and the later write replaced the earlier
C23_Witness ==
    /\ Written(FALSE) = 2
    /\ stored_state(kv, "x").runs = 1

\* C24: the completion of an execution whose job has since been given
\* another spec (or none) writes, onto the state stored now, the outcome of
\* the spec it was dispatched with: last_run_ms the completion time; after
\* a failure failures one higher and backoff_ms doubled from the dispatched
\* period_ms; after a success runs one higher and failures and backoff_ms
\* zero.  The state does not stay at the default an upsert has reset it to.
C24_OldExecutionWritesNewState ==
    [][\A e \in Executions :
        (/\ InFlight' < InFlight
         /\ Complete(e)
         /\ resolve_spec(kv, spec_key(e.id)) # Some(e.spec)) =>
          LET old == stored_state(kv, e.id)
              new == stored_state(kv', e.id)
          IN  /\ new # JobState_default
              /\ new.last_run_ms = clock
              /\ Failing(e) =>
                    /\ new.failures = Min(old.failures + 1, U64_MAX)
                    /\ new.runs = old.runs
                    /\ new.backoff_ms =
                          Min(Min(Max(old.backoff_ms, e.spec.period_ms) * 2, U64_MAX),
                              max_backoff_ms)
              /\ ~Failing(e) =>
                    /\ new.runs = Min(old.runs + 1, U64_MAX)
                    /\ new.failures = 0
                    /\ new.backoff_ms = 0]_vars

\* x holds the spec of a CLI upsert, which reset its state, and a state
\* written afterwards by a failed execution of its earlier spec, whose
\* period_ms lies above the cap
C24_Witness ==
    /\ kv[spec_key("x")] = ser_JobSpec(JobSpec(100, ExecFalse))
    /\ stored_state(kv, "x").runs = 0
    /\ stored_state(kv, "x").failures = 1
    /\ stored_state(kv, "x").backoff_ms = max_backoff_ms

\* C25: the tick step at an id whose spec resolves, whose state (the
\* all-zero state when the entry is missing) makes it due at the tick's now
\* and which finds a permit free dispatches it in that step; so does the
\* step at a job with no state entry once now is at least its period_ms.
C25_DueJobDispatched ==
    [][(sched = "ticking" /\ TickJob /\ tick_spec # None /\ InFlight < MaxConcurrency) =>
          /\ (/\ tick_state_r.ok
              /\ Elapsed(tick_now, tick_state.last_run_ms)
                    >= Period(tick_state, tick_spec[1])) =>
                 inflight' = inflight (+) SetToBag({Execution(tick_id, tick_spec[1])})
          /\ (/\ kv[state_key(tick_id)] = NoFile
              /\ tick_now >= tick_spec[1].period_ms) =>
                 InFlight' = InFlight + 1]_vars

\* the tick, its now equal to the period_ms of x, is at x, which has no
\* state entry, and dispatches it
C25_Witness ==
    /\ sched = "ticking"
    /\ tick_id = "x"
    /\ kv[state_key("x")] = NoFile
    /\ tick_spec # None
    /\ tick_now = tick_spec[1].period_ms
    /\ TickCase = "dispatch"


\* C26: the state a failed execution writes gives its job an effective
\* period (backoff_ms if non-zero, else period_ms) of at least the
\* period_ms of its spec.
C26_BackoffOnlyLengthens ==
    [][\A e \in Executions :
        (InFlight' < InFlight /\ Complete(e) /\ Failing(e)) =>
            Period(stored_state(kv', e.id), e.spec) >= e.spec.period_ms]_vars


----------------------------------------------------------------------------
(* Registry order: the demo job and job x both resolvable, whole ticks,    *)
(* executions completing in any order.                                     *)

NextOrder ==
    \/ TickWhole
    \/ \E e \in Executions : Complete(e)
    \/ WebKvPut(spec_key("demo"), json_JobSpec(JobSpec(100, ExecFalse)))
    \/ \E t \in {100, HugeMs} : SetClock(t)

SpecOrder == InitForeign /\ [][NextOrder]_vars

\* the orders in which a registry can hold the ids of ids
Orders(ids) ==
    {[i \in 1..Len(ids) |-> ids[f[i]]] : f \in Permutations(1..Len(ids))}

\* C27: a tick dispatches the same executions whichever order the registry
\* holds its ids in, the specs, the states and the free permits being the
\* same.
C27_RegistryOrderIrrelevant ==
    [][TickWhole =>
         \A ids \in Orders(registry(kv)) :
             visit_ids(kv, ids, clock, inflight).held = inflight']_vars

----------------------------------------------------------------------------
(* Sustained overload: the demo job re-registered with period 0 is due on  *)
(* every tick and comes first in the registry; job x is registered while   *)
(* executions of the demo job hold every permit.  Executions take longer   *)
(* than a tick interval, so that at most one permit comes back between two *)
(* ticks; every execution completes, and ticks keep firing.  The demo      *)
(* job's statistics are cleared through the web API now and then.          *)

HogSpec == LegacySpec("noop", 0)

InitStarve ==
    /\ kv = jobs_upsert(
                jobs_upsert(seed_demo_job(EmptyStore),
                    [kind |-> "legacy", id |-> "demo", cmd |-> HogSpec.cmd,
                     period_ms |-> HogSpec.period_ms]),
                [kind |-> "legacy", id |-> "x", cmd |-> "noop", period_ms |-> 100])
    /\ clock = 100
    /\ sched = "waiting"
    /\ tick_ids = <<>>
    /\ tick_now = 0
    /\ inflight = [e \in {Execution("demo", JobSpec(HogSpec.period_ms, Noop))}
                     |-> MaxConcurrency]
    /\ shutdown = FALSE

ReleaseOne == \E e \in Executions : InFlight = MaxConcurrency /\ Release(e)

NextStarve ==
    \/ TickWhole
    \/ \E e \in Executions : ExecFinish(e)
    \/ \E e \in Executions : WriteState(e)
    \/ ReleaseOne
    \/ WebKvDel(state_key("demo"))
    \/ WebKvPut(spec_key("x"), json_JobSpec(JobSpec(100, ExecFalse)))
    \/ \E t \in {100, HugeMs} : SetClock(t)

\* a tick changes the state exactly when the driver waits with a permit
\* free, the first job of the registry being due at any time
TickReady == sched = "waiting" /\ CountersBelowBound /\ permit_free(inflight)

\* WF_vars(TickWhole), its enabling condition written out: the interval
\* timer keeps firing
TickFair == []<>(~TickReady) \/ []<><<TickWhole>>_vars

SpecStarve ==
    /\ InitStarve
    /\ [][NextStarve]_vars
    /\ TickFair
    /\ WF_vars(\E e \in Executions : ExecFinish(e))
    /\ WF_vars(\E e \in Executions : WriteState(e))
    /\ WF_vars(ReleaseOne)
    /\ WF_vars(WebKvDel(state_key("demo")))

\* C28: under sustained overload job x, whose spec resolves, is due at
\* every moment and so on every tick; ticks that dispatch keep happening
\* and executions keep completing, yet every tick leaves all permits with
\* executions of the other job and x is never dispatched.
C28_DueJobStarves ==
    /\ [](/\ resolve_spec(kv, spec_key("x")) # None
          /\ due(clock, stored_state(kv, "x"), resolve_spec(kv, spec_key("x"))[1])
          /\ \A e \in Executions : e.id # "x")
    /\ [][TickWhole => InFlight' = MaxConcurrency]_vars
    /\ []<><<TickWhole>>_vars
    /\ []<><<ReleaseOne>>_vars

\* a tick has given the permit of a completed execution to the demo job
\* again while x was due
C28_Witness ==
    /\ kv[state_key("demo")] # NoFile
    /\ InFlight = MaxConcurrency
    /\ \A e \in Executions : e.id = "demo" /\ e.pc = "running"
    /\ due(clock, stored_state(kv, "x"), resolve_spec(kv, spec_key("x"))[1])

----------------------------------------------------------------------------
(* Spec resolution over what the front ends can leave at a spec key:       *)
(* legacy payloads with any cmd (one of them the JSON text of a spec),     *)
(* typed specs, JSON text and other text put as strings, nothing.          *)

\* GET /jobs: one view per registered id whose spec resolves
RECURSIVE jobs_views(_, _)
jobs_views(store, ids) ==
    IF ids = <<>> THEN <<>>
    ELSE LET spec_opt == resolve_spec(store, spec_key(Head(ids)))
             rest == jobs_views(store, Tail(ids))
         IN  IF spec_opt = None THEN rest
             ELSE <<[id |-> Head(ids), spec |-> spec_opt[1],
                     state |-> unwrap_or(ok_flatten(get_t(store, state_key(Head(ids)),
                                                        "JobState")),
                                         JobState_default)]>> \o rest

jobs_list(store) ==
    jobs_views(store, unwrap_or(ok_flatten(get_t(store, reg_key, "Vec<String>")), <<>>))

LegacyPayloads ==
    {[kind |-> "legacy", id |-> "x", cmd |-> c, period_ms |-> 100] : c \in {"noop", "run"}}
    \cup {[kind |-> "legacy", id |-> "x", cmd |-> json_JobSpec(JobSpec(100, ExecFalse)),
           period_ms |-> 200]}

NextResolve ==
    \/ TickBegin
    \/ TickJob
    \/ \E e \in Executions : Complete(e)
    \/ \E payload \in LegacyPayloads : WebJobsUpsert(payload)
    \/ \E sp \in TypedSpecs : CliUpsertJob("x", sp)
    \/ \E text \in JsonTexts \cup {ForeignText} : WebKvPut(spec_key("x"), text)
    \/ WebKvDel(spec_key("x"))
    \/ \E t \in {100, HugeMs} : SetClock(t)

SpecResolve == InitForeign /\ [][NextResolve]_vars

\* what the three decoders make of the bytes at a spec key, in the order
\* JobSpec, LegacySpec, String
FirstDecoded(b) ==
    IF deserialize("JobSpec", b).ok THEN Some(deserialize("JobSpec", b).val)
    ELSE IF deserialize("LegacySpec", b).ok
         THEN Some(JobSpec(deserialize("LegacySpec", b).val.period_ms, Noop))
    ELSE IF deserialize("String", b).ok THEN from_str(deserialize("String", b).val)
    ELSE None

\* C29: the spec of a job, for the scheduler and for the job list, is what
\* the first succeeding decoder in the order JobSpec, LegacySpec, String
\* with JSON gives, a legacy spec of any cmd giving Noop with the legacy
\* period; it is no spec when no decoder succeeds or the entry is absent.
C29_ResolutionOrder ==
    /\ \A id \in JobIds :
         /\ resolve_spec(kv, spec_key(id))
              = IF kv[spec_key(id)] = NoFile THEN None ELSE FirstDecoded(kv[spec_key(id)])
         /\ \A i \in 1..Len(jobs_list(kv)) :
              jobs_list(kv)[i].id = id =>
                  Some(jobs_list(kv)[i].spec) = FirstDecoded(kv[spec_key(id)])
         /\ (kv[spec_key(id)] = NoFile \/ FirstDecoded(kv[spec_key(id)]) = None)
              => \A i \in 1..Len(jobs_list(kv)) : jobs_list(kv)[i].id # id
    /\ \A e \in Executions :
         e.id = "x" /\ e.spec.period_ms = 200 => e.spec.action = Noop

\* x holds a legacy spec whose cmd is the JSON text of a spec: the legacy
\* decoder and the string decoder both succeed, and the scheduler has
\* dispatched the legacy reading
C29_Witness ==
    /\ deserialize("LegacySpec", kv[spec_key("x")]).ok
    /\ deserialize("String", kv[spec_key("x")]).ok
    /\ from_str(deserialize("String", kv[spec_key("x")]).val) = Some(JobSpec(100, ExecFalse))
    /\ Execution("x", JobSpec(200, Noop)) \in Executions

\* C30: no step of a tick (each one moves the driver on) changes the
\* store, so the job it visits keeps its state entry whether it is
\* dispatched, not due, skipped for saturation or without a spec; a job's
\* state entry changes only when an execution of that id completes or a
\* front end upserts or deletes the job.
C30_TickNeverWritesState ==
    [][/\ ((sched' # sched \/ tick_ids' # tick_ids) /\ (TickBegin \/ TickJob)) => kv' = kv
       /\ \A id \in JobIds :
            kv'[state_key(id)] # kv[state_key(id)] =>
                \/ InFlight' < InFlight /\ \E e \in Executions : e.id = id /\ Complete(e)
                \/ InFlight' = InFlight /\ \/ \E sp \in TypedSpecs : CliUpsertJob(id, sp)
                                           \/ CliDelJob(id)
                                           \/ WebJobsDelete(id)]_vars

\* the tick is at x, which is due and has a stored state from an earlier
\* execution, with every permit taken
C30_Witness ==
    /\ sched = "ticking"
    /\ tick_ids # <<>>
    /\ tick_id = "x"
    /\ TickCase = "saturated"
    /\ kv[state_key("x")] # NoFile
    /\ stored_state(kv, "x").failures > 0

----------------------------------------------------------------------------
(* The registry under the front ends alone: sentinel started (and started  *)
(* again) on a store the CLI and the web API upsert into and delete from,  *)
(* each call running to its end before the next.                           *)

\* sentinel start-up seeds the demo job
SeedDemoJob ==
    /\ kv' = seed_demo_job(kv)
    /\ UNCHANGED <<clock, sched, tick_ids, tick_now, inflight, shutdown>>

InitRegistry ==
    /\ kv = EmptyStore
    /\ clock = 0
    /\ sched = "waiting"
    /\ tick_ids = <<>>
    /\ tick_now = 0
    /\ inflight = EmptyBag
    /\ shutdown = FALSE

RegistryPayloads ==
    {[kind |-> "legacy", id |-> id, cmd |-> l.cmd, period_ms |-> l.period_ms] :
        id \in JobIds, l \in LegacySpecs \cup {LegacySpec("run", demo_period_ms)}}
    \cup {[kind |-> "new", id |-> id, spec |-> sp] : id \in JobIds, sp \in JsonSpecs}

NextRegistry ==
    \/ SeedDemoJob
    \/ \E id \in JobIds, sp \in TypedSpecs : CliUpsertJob(id, sp)
    \/ \E id \in JobIds : CliDelJob(id)
    \/ \E payload \in RegistryPayloads : WebJobsUpsert(payload)
    \/ \E id \in JobIds : WebJobsDelete(id)

SpecRegistry == InitRegistry /\ [][NextRegistry]_vars

\* where id stands in ids
Position(ids, id) == CHOOSE i \in 1..Len(ids) : ids[i] = id

\* the step is an upsert of id, or the seeding of id
UpsertOf(id) ==
    \/ \E sp \in TypedSpecs : CliUpsertJob(id, sp)
    \/ \E payload \in RegistryPayloads : payload.id = id /\ WebJobsUpsert(payload)
    \/ id = "demo" /\ SeedDemoJob

\* C31: the registry never holds an id twice; an upsert (or the seeding) of
\* an id already present leaves the registry as it was, one of a new id
\* puts it last; two ids present before and after a step stand in the same
\* order.
C31_RegistryUniqueOrdered ==
    /\ [](\A id \in JobIds : Count(registry(kv), id) <= 1)
    /\ [][/\ \A id \in JobIds :
               UpsertOf(id) =>
                   IF Count(registry(kv), id) > 0
                   THEN registry(kv') = registry(kv)
                   ELSE /\ Len(registry(kv')) = Len(registry(kv)) + 1
                        /\ registry(kv')[Len(registry(kv'))] = id
          /\ \A a, b \in JobIds :
               (/\ Count(registry(kv), a) > 0 /\ Count(registry(kv), b) > 0
                /\ Count(registry(kv'), a) > 0 /\ Count(registry(kv'), b) > 0) =>
                   (Position(registry(kv), a) < Position(registry(kv), b)
                      <=> Position(registry(kv'), a) < Position(registry(kv'), b))]_vars

\* x was registered before the demo job and both have been upserted again
C31_Witness ==
    /\ registry(kv) = <<"x", "demo">>
    /\ kv[spec_key("demo")] = ser_LegacySpec(LegacySpec("noop", 100))
    /\ kv[spec_key("x")] = ser_JobSpec(JobSpec(100, ExecFalse))
    /\ kv[state_key("x")] # NoFile

----------------------------------------------------------------------------
(* Exec with and without a timeout: job x runs a command that never exits. *)
(* Time only moves forward here, and it does not move past the deadline of *)
(* an armed timeout before the timeout has fired.                          *)

Instants == {0, 100, 200, 300}

\* whether the process of cmd ever exits
exits(cmd) == cmd \in {"true", "false"}

\* the timeout around the status future left out
exec_returns_without_timeout(action, deadline, now) == exits(action.cmd)

\* execute's Exec arm returns once the process has exited or, with
\* timeout_ms set, once the deadline has passed
exec_returns(action, deadline, now) ==
    exits(action.cmd) \/ (deadline # None /\ now >= deadline[1])

\* an execution whose process will not exit
Hangs(e) == e.spec.action.type = "exec" /\ ~exits(e.spec.action.cmd)

\* the execution with the deadline of its timeout, None without one
Armed(e, deadline) ==
    [id |-> e.id, spec |-> e.spec, pc |-> e.pc, res |-> e.res, st |-> e.st,
     deadline |-> deadline]

IsArmed(e) == "deadline" \in DOMAIN e

\* the spawned task calls execute: the process is started and the timeout,
\* if any, armed
ExecStart(e) ==
    /\ e.pc = "running"
    /\ ~IsArmed(e)
    /\ LET ms == IF e.spec.action.type = "exec" THEN e.spec.action.timeout_ms ELSE None IN
       /\ ms # None => clock + ms[1] \in Instants
       /\ inflight' = Replace(inflight, e,
              Armed(e, IF ms = None THEN None ELSE Some(clock + ms[1])))
    /\ UNCHANGED <<kv, clock, sched, tick_ids, tick_now, shutdown>>

\* execute returns: the Exec arm with the exit status or the timeout error,
\* every other arm at once; the task reads the job's state and the clock
ExecReturn(e) ==
    /\ e.pc = "running"
    /\ IsArmed(e)
    /\ e.spec.action.type = "exec" => exec_returns(e.spec.action, e.deadline, clock)
    /\ LET r == IF Hangs(e)
                THEN [ok |-> FALSE, store |-> kv]
                ELSE execute(e.spec.action, kv)
       IN  /\ kv' = r.store
           /\ inflight' = Replace(inflight, e,
                  [e EXCEPT !.pc = "read",
                            !.res = IF r.ok THEN "ok" ELSE "err",
                            !.st = read_state(e, r.store, clock)])
    /\ UNCHANGED <<clock, sched, tick_ids, tick_now, shutdown>>

\* an armed timeout whose process will not exit
TimesOut(e) ==
    /\ IsArmed(e)
    /\ e.pc = "running"
    /\ Hangs(e)
    /\ e.deadline # None

\* a started execution whose process will not exit and has no timeout
HangsForever(e) ==
    /\ IsArmed(e)
    /\ e.pc = "running"
    /\ Hangs(e)
    /\ e.deadline = None

Advance ==
    /\ \E t \in Instants :
         /\ t > clock
         /\ \A e \in Executions : TimesOut(e) => t <= e.deadline[1]
         /\ clock' = t
    /\ UNCHANGED <<kv, sched, tick_ids, tick_now, inflight, shutdown>>

NextTimeout ==
    \/ TickWhole
    \/ \E e \in Executions : ExecStart(e)
    \/ \E e \in Executions : ExecReturn(e)
    \/ \E e \in Executions : WriteState(e)
    \/ \E e \in Executions : Release(e)
    \/ \E sp \in HangSpecs : WebKvPut(spec_key("x"), json_JobSpec(sp))
    \/ Advance

\* execute of some execution can return
ReturnReady ==
    \E e \in Executions :
        /\ e.pc = "running"
        /\ IsArmed(e)
        /\ e.spec.action.type = "exec" => exec_returns(e.spec.action, e.deadline, clock)

\* WF_vars(\E e \in Executions : ExecReturn(e)) and
\* WF_vars(\E e \in Executions : WriteState(e)), the enabling conditions
\* written out: the runtime keeps running every task that can go on
ReturnFair == []<>(~ReturnReady) \/ []<><<\E e \in Executions : ExecReturn(e)>>_vars

WriteFair ==
    []<>(\A e \in Executions : e.pc # "read")
    \/ []<><<\E e \in Executions : WriteState(e)>>_vars

SpecTimeout ==
    /\ InitForeign
    /\ [][NextTimeout]_vars
    /\ ReturnFair
    /\ WriteFair
    /\ WF_vars(\E e \in Executions : Release(e))
    /\ WF_vars(Advance)

\* C32: an Exec whose process never exits returns from execute at the
\* deadline of its timeout, as an error; the state then written has
\* failures one higher and backoff_ms raised (or at its cap) against the
\* state read, and the permit comes back: every execution with an armed
\* timeout eventually leaves the executions in flight.  Without timeout_ms
\* the execution stays in flight, holding its permit, for ever.
C32_TimeoutFailsHangKeepsPermit ==
    /\ [][\A e \in Executions :
            (TimesOut(e) /\ ExecReturn(e)) =>
                /\ clock = e.deadline[1]
                /\ [e EXCEPT !.pc = "read", !.res = "err",
                             !.st = read_state(e, kv, clock)] \in BagToSet(inflight')]_vars
    /\ [][\A e \in Executions :
            (/\ IsArmed(e) /\ e.pc = "read" /\ Hangs(e)
             /\ WriteState(e)) =>
                /\ stored_state(kv', e.id).failures = saturating_add(e.st.failures, 1)
                /\ stored_state(kv', e.id).runs = e.st.runs
                /\ \/ stored_state(kv', e.id).backoff_ms > e.st.backoff_ms
                   \/ stored_state(kv', e.id).backoff_ms = max_backoff_ms]_vars
    /\ \A d \in Instants :
         (\E e \in Executions : TimesOut(e) /\ e.deadline = Some(d))
            ~> (/\ clock >= d
                /\ \A e \in Executions : (IsArmed(e) /\ e.deadline = Some(d)) => ~Hangs(e))
    /\ [][\A e \in Executions :
            HangsForever(e) => CopiesIn(e, inflight') >= CopiesIn(e, inflight)]_vars

\* a timed-out execution has failed and given its permit back while one
\* without a timeout, started no later, still holds its permit
C32_Witness ==
    /\ stored_state(kv, "x").failures > 0
    /\ stored_state(kv, "x").last_run_ms = 200
    /\ clock = 300
    /\ \E e \in Executions : HangsForever(e)
    /\ \A e \in Executions : ~TimesOut(e) /\ e.pc = "running"

----------------------------------------------------------------------------
(* The actions whose outcome is fixed by the variant: job x runs Noop (its *)
(* legacy spec), then KvDel on the demo job's spec entry, then Http, each  *)
(* execution step by step.                                                 *)

NextActions ==
    \/ TickWhole
    \/ \E e \in Executions : ExecFinish(e)
    \/ \E e \in Executions : WriteState(e)
    \/ \E e \in Executions : Release(e)
    \/ \E sp \in KvDelSpecs \cup {JobSpec(HugeMs, Http("u"))} :
           WebKvPut(spec_key("x"), json_JobSpec(sp))
    \/ \E t \in {100, HugeMs} : SetClock(t)

SpecActions == InitForeign /\ [][NextActions]_vars

\* the execution as execute's return leaves it
Returned(e, res) ==
    [e EXCEPT !.pc = "read", !.res = res, !.st = read_state(e, kv', clock)]

\* C33: execute returns Ok for Noop and leaves the store as it was; Ok for
\* KvDel whether the key was there or not, the key absent afterwards and
\* every other key as it was; an error for Http and leaves the store as it
\* was.  The state an Http execution then writes has failures one higher
\* than read, backoff_ms raised (or at its cap) and runs unchanged.
C33_OutcomeByVariant ==
    /\ [][\A e \in Executions :
            (InFlight' = InFlight /\ ExecFinish(e)) =>
                CASE e.spec.action.type = "noop" ->
                       /\ kv' = kv
                       /\ Returned(e, "ok") \in BagToSet(inflight')
                  [] e.spec.action.type = "kv_del" ->
                       /\ kv'[e.spec.action.key] = NoFile
                       /\ \A k \in Keys \ {e.spec.action.key} : kv'[k] = kv[k]
                       /\ Returned(e, "ok") \in BagToSet(inflight')
                  [] e.spec.action.type = "http" ->
                       /\ kv' = kv
                       /\ Returned(e, "err") \in BagToSet(inflight')
                  [] OTHER -> TRUE]_vars
    /\ [][\A e \in Executions :
            (InFlight' = InFlight /\ e.spec.action.type = "http" /\ WriteState(e)) =>
                /\ stored_state(kv', e.id).failures = saturating_add(e.st.failures, 1)
                /\ stored_state(kv', e.id).runs = e.st.runs
                /\ \/ stored_state(kv', e.id).backoff_ms > e.st.backoff_ms
                   \/ stored_state(kv', e.id).backoff_ms = max_backoff_ms]_vars

\* two KvDel executions on the demo job's spec entry have both returned
\* Ok, the later of them with the entry already absent
C33_Witness ==
    /\ kv["jobs:demo:spec"] = NoFile
    /\ BagCardinality([e \in {f \in Executions : /\ f.spec.action.type = "kv_del"
                                                  /\ f.pc = "read"
                                                  /\ f.res = "ok"}
                         |-> CopiesIn(e, inflight)]) >= 2
====
